---- MODULE Spec2Model ----
(***************************************************************************)
(* Model of VideoRatioTool.py: convert_videos_in_folder, the batch loop    *)
(* over a directory listing, and the crop / letterbox dimension            *)
(* arithmetic, which Python evaluates in IEEE-754 binary64 floats.         *)
(***************************************************************************)
EXTENDS Integers, Sequences, FiniteSets, TLC

(***************************************************************************)
(* Bounds of the model.                                                    *)
(***************************************************************************)
MaxDim == 9
MaxRatio == 14
MaxRatioLen == 3
MaxFiles == 2

(***************************************************************************)
(* Natural numbers of arbitrary size, as little-endian sequences of limbs  *)
(* in base 2^15 with no leading zero limb.  They carry the 53-bit          *)
(* significands of Python floats.                                          *)
(***************************************************************************)
LimbBits == 15
LimbBase == 32768
MantBits == 53

\* F(v) and F(v, w) with the operands evaluated once, before F is applied:
\* TLC evaluates an operator argument again at each of its uses
Eval1(v, F(_)) == CHOOSE r \in {F(a) : a \in {v}} : TRUE

Eval2(v, w, F(_, _)) == CHOOSE r \in {F(a, b) : a \in {v}, b \in {w}} : TRUE

Limb(x, i) == IF i <= Len(x) THEN x[i] ELSE 0

\* position of the highest limb that is not zero, 0 if there is none
TopLimb(x) ==
    LET nz == {i \in 1..Len(x) : x[i] # 0}
    IN  IF nz = {} THEN 0 ELSE CHOOSE i \in nz : \A j \in nz : j <= i

BigNorm(x) == Eval1(x, LAMBDA a : SubSeq(a, 1, TopLimb(a)))

\* for 0 <= n < 2^31
BigFromInt(n) ==
    BigNorm(<<n % LimbBase, (n \div LimbBase) % LimbBase,
              n \div (LimbBase * LimbBase)>>)

\* for x < 2^31
BigToInt(x) ==
    Eval1(x, LAMBDA a : Limb(a, 1) + LimbBase * Limb(a, 2)
                          + LimbBase * LimbBase * Limb(a, 3))

RECURSIVE BigCmpFrom(_, _, _)
BigCmpFrom(x, y, i) ==
    IF i = 0 THEN 0
    ELSE IF x[i] > y[i] THEN 1
    ELSE IF x[i] < y[i] THEN -1
    ELSE BigCmpFrom(x, y, i - 1)

\* 1, 0 or -1 as x is greater than, equal to or less than y
BigCmp(x, y) ==
    Eval2(x, y, LAMBDA a, b :
        IF Len(a) > Len(b) THEN 1
        ELSE IF Len(a) < Len(b) THEN -1
        ELSE BigCmpFrom(a, b, Len(a)))

RECURSIVE BigAddFrom(_, _, _, _)
BigAddFrom(x, y, i, carry) ==
    IF i > Len(x) /\ i > Len(y)
    THEN (IF carry = 0 THEN << >> ELSE <<carry>>)
    ELSE LET s == Limb(x, i) + Limb(y, i) + carry
         IN  <<s % LimbBase>> \o BigAddFrom(x, y, i + 1, s \div LimbBase)

BigAdd(x, y) == Eval2(x, y, LAMBDA a, b : BigNorm(BigAddFrom(a, b, 1, 0)))

RECURSIVE BigSubFrom(_, _, _, _)
BigSubFrom(x, y, i, borrow) ==
    IF i > Len(x) THEN << >>
    ELSE IF x[i] - Limb(y, i) - borrow < 0
    THEN <<x[i] - Limb(y, i) - borrow + LimbBase>> \o BigSubFrom(x, y, i + 1, 1)
    ELSE <<x[i] - Limb(y, i) - borrow>> \o BigSubFrom(x, y, i + 1, 0)

\* x - y, for x >= y
BigSub(x, y) == Eval2(x, y, LAMBDA a, b : BigNorm(BigSubFrom(a, b, 1, 0)))

RECURSIVE BigMulSmallFrom(_, _, _, _)
BigMulSmallFrom(x, k, i, carry) ==
    IF i > Len(x)
    THEN (IF carry = 0 THEN << >> ELSE <<carry>>)
    ELSE LET p == x[i] * k + carry
         IN  <<p % LimbBase>> \o BigMulSmallFrom(x, k, i + 1, p \div LimbBase)

\* x * k, for a single limb k
BigMulSmall(x, k) ==
    Eval2(x, k, LAMBDA a, c : IF c = 0 THEN << >> ELSE BigMulSmallFrom(a, c, 1, 0))

\* x * (y[i] + y[i+1] * LimbBase + ...)
RECURSIVE BigMulFrom(_, _, _)
BigMulFrom(x, y, i) ==
    IF i > Len(y) THEN << >>
    ELSE BigAdd(BigMulSmall(x, y[i]), <<0>> \o BigMulFrom(x, y, i + 1))

BigMul(x, y) == Eval2(x, y, LAMBDA a, b : BigMulFrom(a, b, 1))

BigIsOdd(x) == Len(x) > 0 /\ x[1] % 2 = 1

\* number of bits of a limb
BitLen(n) ==
    Eval1(n, LAMBDA a :
        CHOOSE b \in 0..LimbBits : a < 2 ^ b /\ (b = 0 \/ a >= 2 ^ (b - 1)))

BigBitLen(x) ==
    Eval1(x, LAMBDA a :
        IF Len(a) = 0 THEN 0 ELSE LimbBits * (Len(a) - 1) + BitLen(a[Len(a)]))

\* x * 2^k
BigShl(x, k) ==
    Eval2(x, k, LAMBDA a, s :
        IF Len(a) = 0 THEN a
        ELSE [i \in 1..(s \div LimbBits) |-> 0] \o BigMulSmall(a, 2 ^ (s % LimbBits)))

\* floor(x / k) for a single limb k >= 1, from limb i downward with remainder rem
RECURSIVE BigDivSmallFrom(_, _, _, _)
BigDivSmallFrom(x, k, i, rem) ==
    IF i = 0 THEN << >>
    ELSE LET cur == rem * LimbBase + x[i]
         IN  BigDivSmallFrom(x, k, i - 1, cur % k) \o <<cur \div k>>

BigDivSmall(x, k) ==
    Eval2(x, k, LAMBDA a, c : BigNorm(BigDivSmallFrom(a, c, Len(a), 0)))

\* floor(x / 2^k)
BigShr(x, k) ==
    Eval2(x, k, LAMBDA a, s :
        IF s \div LimbBits >= Len(a) THEN << >>
        ELSE BigDivSmall(SubSeq(a, (s \div LimbBits) + 1, Len(a)),
                         2 ^ (s % LimbBits)))

\* the largest digit g <= guess with d * g <= r
RECURSIVE QuotientDigit(_, _, _)
QuotientDigit(r, d, guess) ==
    IF BigCmp(BigMulSmall(d, guess), r) > 0
    THEN QuotientDigit(r, d, guess - 1)
    ELSE guess

\* the next digit of the quotient, floor(r / d), for r < d * LimbBase: guessed
\* from the two top limbs of r and the top limb of d, then corrected
NextDigit(r, d) ==
    IF BigCmp(r, d) < 0 THEN 0
    ELSE Eval1((Limb(r, Len(d) + 1) * LimbBase + Limb(r, Len(d))) \div d[Len(d)],
               LAMBDA est :
                   QuotientDigit(r, d, IF est >= LimbBase THEN LimbBase - 1 ELSE est))

\* one step of the schoolbook division by d: the limb is brought down onto
\* the remainder of qr = <<quotient, remainder>>
DivStep(limb, d, qr) ==
    Eval1(BigNorm(<<limb>> \o qr[2]), LAMBDA r :
        Eval1(NextDigit(r, d), LAMBDA g :
            <<(<<g>>) \o qr[1], BigSub(r, BigMulSmall(d, g))>>))

\* the steps for the limbs n[i], ..., n[1]
RECURSIVE BigDivModFrom(_, _, _, _)
BigDivModFrom(n, d, i, qr) ==
    IF i = 0 THEN qr
    ELSE Eval1(DivStep(n[i], d, qr), LAMBDA next : BigDivModFrom(n, d, i - 1, next))

\* <<floor(n / d), 0 if d divides n and 1 otherwise>>, for d > 0; both are
\* first scaled to bring the top limb of d to at least LimbBase / 2
BigDiv(n, d) ==
    Eval1(LimbBits - BitLen(d[Len(d)]), LAMBDA s :
        Eval2(BigShl(n, s), BigShl(d, s), LAMBDA sn, sd :
            Eval1(BigDivModFrom(sn, sd, Len(sn), <<(<< >>), (<< >>)>>), LAMBDA qr :
                <<BigNorm(qr[1]), IF Len(qr[2]) = 0 THEN 0 ELSE 1>>)))

(***************************************************************************)
(* Positive binary64 values: [m, e] stands for m * 2^e with                *)
(* 2^52 <= m < 2^53.  Every operation rounds to nearest, ties to even, as  *)
(* the hardware does for Python's float.                                   *)
(***************************************************************************)
\* the part of p below bit k is more than half of 2^k, or half of it with
\* q = floor(p / 2^k) odd
RoundsUp(p, q, k) ==
    Eval1(BigCmp(BigMulSmall(BigSub(p, BigShl(q, k)), 2), BigShl(<<1>>, k)),
          LAMBDA c : c > 0 \/ (c = 0 /\ BigIsOdd(q)))

\* p of len > 53 bits, rounded to 53 bits
RoundOff(p, e, len) ==
    Eval1(BigShr(p, len - MantBits), LAMBDA q :
        Eval1(IF RoundsUp(p, q, len - MantBits) THEN BigAdd(q, <<1>>) ELSE q,
              LAMBDA m :
                  IF BigBitLen(m) > MantBits
                  THEN [m |-> BigShr(m, 1), e |-> e + (len - MantBits) + 1]
                  ELSE [m |-> m, e |-> e + (len - MantBits)]))

\* round p * 2^e, p > 0, to a 53-bit significand
FRound(p, e) ==
    Eval2(p, e, LAMBDA sp, se :
        Eval1(BigBitLen(sp), LAMBDA len :
            IF len <= MantBits
            THEN [m |-> BigShl(sp, MantBits - len), e |-> se - (MantBits - len)]
            ELSE RoundOff(sp, se, len)))

\* float(n) for an integer n >= 1
FromInt(n) == FRound(BigFromInt(n), 0)

\* a * b
FMul(a, b) == Eval2(a, b, LAMBDA fa, fb : FRound(BigMul(fa.m, fb.m), fa.e + fb.e))

\* a / b: the quotient of the significands to 54 or 55 bits and one more
\* bit, sticky for an inexact quotient, rounded once
FDiv(a, b) ==
    Eval2(a, b, LAMBDA fa, fb :
        Eval1(BigDiv(BigShl(fa.m, MantBits + 1), fb.m), LAMBDA qs :
            FRound(BigAdd(BigMulSmall(qs[1], 2), IF qs[2] = 0 THEN << >> ELSE <<1>>),
                   fa.e - fb.e - (MantBits + 2))))

\* a > b
FGt(a, b) ==
    Eval2(a, b, LAMBDA fa, fb :
        fa.e > fb.e \/ (fa.e = fb.e /\ BigCmp(fa.m, fb.m) > 0))

\* int(f): truncation toward zero of a positive float, for results < 2^31
Trunc(f) ==
    Eval1(f, LAMBDA fa :
        IF fa.e >= 0 THEN BigToInt(BigShl(fa.m, fa.e))
        ELSE BigToInt(BigShr(fa.m, 0 - fa.e)))

(***************************************************************************)
(* The dimension arithmetic of convert_videos_in_folder.                   *)
(***************************************************************************)
\* new_width if new_width % 2 == 0 else new_width - 1
EvenDown(x) == IF x % 2 = 0 THEN x ELSE x - 1

\* original_width / original_height and w_ratio / h_ratio: int / int
Aspect(a, b) == FDiv(FromInt(a), FromInt(b))

\* the crop with its two branches exchanged
CropSizeSwapped(original_width, original_height, wr, hr) ==
    Eval2(Aspect(original_width, original_height), Aspect(wr, hr),
          LAMBDA original_aspect, target_aspect :
        IF FGt(original_aspect, target_aspect)
        THEN <<original_width,
               EvenDown(Trunc(FDiv(FromInt(original_width), target_aspect)))>>
        ELSE <<EvenDown(Trunc(FMul(FromInt(original_height), target_aspect))),
               original_height>>)

\* size of clip.crop(x_center=..., width=new_width) or
\* clip.crop(y_center=..., height=new_height)
CropSize(original_width, original_height, wr, hr) ==
    Eval2(Aspect(original_width, original_height), Aspect(wr, hr),
          LAMBDA original_aspect, target_aspect :
        IF FGt(original_aspect, target_aspect)
        THEN <<EvenDown(Trunc(FMul(FromInt(original_height), target_aspect))),
               original_height>>
        ELSE <<original_width,
               EvenDown(Trunc(FDiv(FromInt(original_width), target_aspect)))>>)

\* (final_width, final_height) of the black background
LetterboxSize(original_width, original_height, wr, hr) ==
    Eval2(Aspect(original_width, original_height), Aspect(wr, hr),
          LAMBDA original_aspect, target_aspect :
        IF FGt(original_aspect, target_aspect)
        THEN <<original_width,
               EvenDown(Trunc(FDiv(FromInt(original_width), target_aspect)))>>
        ELSE <<EvenDown(Trunc(FMul(FromInt(original_height), target_aspect))),
               original_height>>)

(***************************************************************************)
(* Strings are sequences of one-character strings.                         *)
(***************************************************************************)
Digits == <<"0", "1", "2", "3", "4", "5", "6", "7", "8", "9">>

IsDigit(c) == \E i \in 1..10 : Digits[i] = c

DigitValue(c) == (CHOOSE i \in 1..10 : Digits[i] = c) - 1

\* str.split(sep): the parts of s between the occurrences of sep
RECURSIVE Split(_, _)
Split(s, sep) ==
    Eval1(s, LAMBDA str :
        IF \A i \in 1..Len(str) : str[i] # sep THEN <<str>>
        ELSE Eval1(CHOOSE i \in 1..Len(str) :
                       str[i] = sep /\ \A j \in 1..(i - 1) : str[j] # sep,
                   LAMBDA k : <<SubSeq(str, 1, k - 1)>>
                                  \o Split(SubSeq(str, k + 1, Len(str)), sep)))

RECURSIVE DigitsValue(_)
DigitsValue(s) ==
    Eval1(s, LAMBDA str :
        IF Len(str) = 0 THEN 0
        ELSE 10 * DigitsValue(SubSeq(str, 1, Len(str) - 1)) + DigitValue(str[Len(str)]))

HasSign(s) == Len(s) > 0 /\ s[1] \in {"+", "-"}

Unsigned(s) == IF HasSign(s) THEN Tail(s) ELSE s

\* int(s) succeeds: an optional sign and at least one decimal digit
\* (blanks and underscores, which int() also tolerates, are not in the alphabet)
IsIntLiteral(s) ==
    /\ Len(Unsigned(s)) > 0
    /\ \A i \in 1..Len(Unsigned(s)) : IsDigit(Unsigned(s)[i])

\* int(s) of a literal
IntOf(s) ==
    IF HasSign(s) /\ s[1] = "-" THEN 0 - DigitsValue(Unsigned(s))
    ELSE DigitsValue(Unsigned(s))

ValueError == <<0, 0>>

\* w_ratio, h_ratio = map(int, target_aspect_ratio.split(':')), with the
\* check of positive components; ValueError when the try block raises
ParseRatioString(s) ==
    Eval1(Split(s, ":"), LAMBDA parts :
        IF Len(parts) # 2 THEN ValueError
        ELSE IF ~(IsIntLiteral(parts[1]) /\ IsIntLiteral(parts[2])) THEN ValueError
        ELSE IF IntOf(parts[1]) <= 0 \/ IntOf(parts[2]) <= 0 THEN ValueError
        ELSE <<IntOf(parts[1]), IntOf(parts[2])>>)

\* filename.lower()
LowerChar(c) ==
    CASE c = "A" -> "a" [] c = "B" -> "b" [] c = "I" -> "i" [] c = "M" -> "m"
      [] c = "O" -> "o" [] c = "P" -> "p" [] c = "V" -> "v" [] OTHER -> c

Lower(s) == [i \in 1..Len(s) |-> LowerChar(s[i])]

\* s.endswith(t)
EndsWith(s, t) == Len(s) >= Len(t) /\ SubSeq(s, Len(s) - Len(t) + 1, Len(s)) = t

VideoExtensions ==
    {<<".", "m", "p", "4">>, <<".", "m", "o", "v">>, <<".", "a", "v", "i">>}

\* os.path.isfile(old_file_path) and filename.lower().endswith(('.mp4', '.mov', '.avi'))
Qualifies(entry) ==
    entry.isfile /\ \E ext \in VideoExtensions : EndsWith(Lower(entry.name), ext)

\* os.path.splitext: the extension starts at the last dot, unless the name
\* has no dot after its leading dots
SplitExt(s) ==
    LET dots == {i \in 1..Len(s) : s[i] = "." /\ \E j \in 1..(i - 1) : s[j] # "."}
    IN  IF dots = {} THEN <<s, << >> >>
        ELSE LET k == CHOOSE i \in dots : \A j \in dots : j <= i
             IN  <<SubSeq(s, 1, k - 1), SubSeq(s, k, Len(s))>>

output_suffix == <<"_", "S", "h", "o", "r", "t", "s">>

\* f"{name}{output_suffix}{extension}"
NewFilename(filename) == SplitExt(filename)[1] \o output_suffix \o SplitExt(filename)[2]

(***************************************************************************)
(* State of one call of convert_videos_in_folder.                          *)
(***************************************************************************)
VARIABLES
    pc,                   \* position in the function body
    MOVIEPY_INSTALLED,    \* the import of moviepy.editor succeeded
    folder_is_dir,        \* os.path.isdir(folder_path)
    output_existed,       \* os.path.exists(output_path) when the call began
    output_exists,        \* os.path.exists(output_path) now
    target_aspect_ratio,  \* the argument, a string
    conversion_method,    \* the argument
    w_ratio, h_ratio,     \* the parsed ratio, 0 while unassigned
    listed,               \* os.listdir(folder_path) has been called
    listing,              \* its result
    idx,                  \* position of the for loop in listing
    clip, new_clip,       \* the local variables: Unbound, None or a clip object
    clips,                \* every clip object created, with its number of close() calls
    outputs,              \* names of the files written into output_path
    attempted,            \* positions of the files whose try block was entered
    failed                \* positions of the files whose try block raised

vars == <<pc, MOVIEPY_INSTALLED, folder_is_dir, output_existed, output_exists,
          target_aspect_ratio, conversion_method, w_ratio, h_ratio, listed,
          listing, idx, clip, new_clip, clips, outputs, attempted, failed>>

args == <<MOVIEPY_INSTALLED, folder_is_dir, output_existed, target_aspect_ratio,
          conversion_method>>

\* values of a local variable other than a clip object, which is the
\* position of the object in clips: never assigned, and None
Unbound == 0 - 1
None == 0

RatioAlphabet == {"0", "1", "-", ":", "a"}

RatioStrings == UNION {[1..n -> RatioAlphabet] : n \in 0..MaxRatioLen}

Methods == {"crop", "letterbox", "zoom"}

DirEntries ==
    { [name |-> <<"a", ".", "m", "p", "4">>, isfile |-> TRUE],
      [name |-> <<"B", ".", "M", "O", "V">>, isfile |-> TRUE],
      [name |-> <<"c", ".", "a", "v", "i">>, isfile |-> FALSE],
      [name |-> <<"d", ".", "t", "x", "t">>, isfile |-> TRUE] }

\* results of os.listdir: no name twice
Listings ==
    {l \in UNION {[1..n -> DirEntries] : n \in 0..MaxFiles} :
        \A i, j \in 1..Len(l) : l[i].name = l[j].name => i = j}

\* values of clip.size in a run over a directory
ClipSizes == {<<4, 3>>}

Init ==
    /\ pc = "start"
    /\ MOVIEPY_INSTALLED \in BOOLEAN
    /\ folder_is_dir \in BOOLEAN
    /\ output_existed \in BOOLEAN
    /\ output_exists = output_existed
    /\ target_aspect_ratio \in RatioStrings
    /\ conversion_method \in Methods
    /\ w_ratio = 0
    /\ h_ratio = 0
    /\ listed = FALSE
    /\ listing = << >>
    /\ idx = 0
    /\ clip = Unbound
    /\ new_clip = Unbound
    /\ clips = << >>
    /\ outputs = {}
    /\ attempted = {}
    /\ failed = {}

\* if not MOVIEPY_INSTALLED: return
CheckLibrary ==
    /\ pc = "start"
    /\ pc' = IF MOVIEPY_INSTALLED THEN "check_input" ELSE "done"
    /\ UNCHANGED <<args, output_exists, w_ratio, h_ratio, listed, listing, idx,
                   clip, new_clip, clips, outputs, attempted, failed>>

\* the input directory is checked, but a missing one does not end the call
CheckInputNoReturn ==
    /\ pc = "check_input"
    /\ pc' = "make_output"
    /\ UNCHANGED <<args, output_exists, w_ratio, h_ratio, listed, listing, idx,
                   clip, new_clip, clips, outputs, attempted, failed>>

\* if not os.path.isdir(folder_path): return
CheckInput ==
    /\ pc = "check_input"
    /\ pc' = IF folder_is_dir THEN "make_output" ELSE "done"
    /\ UNCHANGED <<args, output_exists, w_ratio, h_ratio, listed, listing, idx,
                   clip, new_clip, clips, outputs, attempted, failed>>

\* if not os.path.exists(output_path): os.makedirs(output_path)
MakeOutput ==
    /\ pc = "make_output"
    /\ output_exists' = TRUE
    /\ pc' = "parse"
    /\ UNCHANGED <<args, w_ratio, h_ratio, listed, listing, idx,
                   clip, new_clip, clips, outputs, attempted, failed>>

\* a ratio that does not parse is reported, and the call goes on
ParseRatioNoReturn ==
    /\ pc = "parse"
    /\ \E r \in {ParseRatioString(target_aspect_ratio)} :
          /\ w_ratio' = IF r = ValueError THEN 1 ELSE r[1]
          /\ h_ratio' = IF r = ValueError THEN 1 ELSE r[2]
          /\ pc' = "list"
    /\ UNCHANGED <<args, output_exists, listed, listing, idx,
                   clip, new_clip, clips, outputs, attempted, failed>>

\* the try block that parses target_aspect_ratio; return on ValueError
ParseRatio ==
    /\ pc = "parse"
    /\ \E r \in {ParseRatioString(target_aspect_ratio)} :
          IF r = ValueError
          THEN pc' = "done" /\ UNCHANGED <<w_ratio, h_ratio>>
          ELSE pc' = "list" /\ w_ratio' = r[1] /\ h_ratio' = r[2]
    /\ UNCHANGED <<args, output_exists, listed, listing, idx,
                   clip, new_clip, clips, outputs, attempted, failed>>

\* os.listdir(folder_path)
ListDir ==
    /\ pc = "list"
    /\ \E l \in Listings : listing' = l
    /\ listed' = TRUE
    /\ idx' = 1
    /\ pc' = "next"
    /\ UNCHANGED <<args, output_exists, w_ratio, h_ratio,
                   clip, new_clip, clips, outputs, attempted, failed>>

\* the for statement and the filter on its entries
NextFile ==
    /\ pc = "next"
    /\ IF idx > Len(listing) THEN pc' = "done" /\ idx' = idx
       ELSE IF Qualifies(listing[idx]) THEN pc' = "load" /\ idx' = idx
       ELSE pc' = "next" /\ idx' = idx + 1
    /\ UNCHANGED <<args, output_exists, w_ratio, h_ratio, listed, listing,
                   clip, new_clip, clips, outputs, attempted, failed>>

\* a clip object created for the current entry: closes counts the calls of
\* close() on it, closed_in holds the loop positions that made them
NewClip(kind, size) ==
    [kind |-> kind, file |-> idx, size |-> size, closes |-> 0, closed_in |-> {}]

\* clip = VideoFileClip(old_file_path), which may raise
Load ==
    /\ pc = "load"
    /\ attempted' = attempted \cup {idx}
    /\ \/ \E size \in ClipSizes :
            /\ clips' = Append(clips, NewClip("source", size))
            /\ clip' = Len(clips) + 1
            /\ pc' = "transform"
            /\ failed' = failed
       \/ /\ failed' = failed \cup {idx}
          /\ pc' = "finally"
          /\ UNCHANGED <<clip, clips>>
    /\ UNCHANGED <<args, output_exists, w_ratio, h_ratio, listed, listing, idx,
                   new_clip, outputs>>

\* new_clip = None, then the branch conversion_method == "crop";
\* clip.crop may raise
Crop ==
    /\ pc = "transform"
    /\ conversion_method = "crop"
    /\ \/ /\ clips' = Append(clips,
                 NewClip("crop", CropSize(clips[clip].size[1], clips[clip].size[2],
                                          w_ratio, h_ratio)))
          /\ new_clip' = Len(clips) + 1
          /\ pc' = "write"
          /\ failed' = failed
       \/ /\ new_clip' = None
          /\ failed' = failed \cup {idx}
          /\ pc' = "finally"
          /\ clips' = clips
    /\ UNCHANGED <<args, output_exists, w_ratio, h_ratio, listed, listing, idx,
                   clip, outputs, attempted>>

\* new_clip = None, then the branch conversion_method == "letterbox";
\* ColorClip and CompositeVideoClip may raise
Letterbox ==
    /\ pc = "transform"
    /\ conversion_method = "letterbox"
    /\ \E background \in {NewClip("background",
                                    LetterboxSize(clips[clip].size[1],
                                                  clips[clip].size[2],
                                                  w_ratio, h_ratio))} :
           \/ /\ clips' = clips \o <<background,
                                      NewClip("composite", background.size)>>
              /\ new_clip' = Len(clips) + 2
              /\ pc' = "write"
              /\ failed' = failed
           \/ /\ clips' = Append(clips, background)
              /\ new_clip' = None
              /\ failed' = failed \cup {idx}
              /\ pc' = "finally"
           \/ /\ clips' = clips
              /\ new_clip' = None
              /\ failed' = failed \cup {idx}
              /\ pc' = "finally"
    /\ UNCHANGED <<args, output_exists, w_ratio, h_ratio, listed, listing, idx,
                   clip, outputs, attempted>>

\* new_clip = None, then the else branch: the method is reported and the
\* file skipped with continue, which runs the finally block
InvalidMethod ==
    /\ pc = "transform"
    /\ conversion_method \notin {"crop", "letterbox"}
    /\ new_clip' = None
    /\ pc' = "finally"
    /\ UNCHANGED <<args, output_exists, w_ratio, h_ratio, listed, listing, idx,
                   clip, clips, outputs, attempted, failed>>

\* new_clip.write_videofile(new_file_path, ...), which may raise
Write ==
    /\ pc = "write"
    /\ \/ /\ outputs' = outputs \cup {NewFilename(listing[idx].name)}
          /\ failed' = failed
       \/ /\ failed' = failed \cup {idx}
          /\ outputs' = outputs
    /\ pc' = "finally"
    /\ UNCHANGED <<args, output_exists, w_ratio, h_ratio, listed, listing, idx,
                   clip, new_clip, clips, attempted>>

\* c.close()
Close(cs, c) == [cs EXCEPT ![c].closes = @ + 1, ![c].closed_in = @ \cup {idx}]

\* the finally block: 'clip' in locals() and 'new_clip' in locals() hold as
\* soon as any iteration has assigned the variable
Closed ==
    LET first == IF clip # Unbound THEN Close(clips, clip) ELSE clips
    IN  IF new_clip # Unbound /\ new_clip # None THEN Close(first, new_clip) ELSE first

\* the finally block, but an error in the try block ends the loop
FinallyStopOnError ==
    /\ pc = "finally"
    /\ clips' = Closed
    /\ idx' = idx + 1
    /\ pc' = IF idx \in failed THEN "done" ELSE "next"
    /\ UNCHANGED <<args, output_exists, w_ratio, h_ratio, listed, listing,
                   clip, new_clip, outputs, attempted, failed>>

\* the except clause has logged the error if there was one; the finally
\* block closes, and the loop goes to the next entry
Finally ==
    /\ pc = "finally"
    /\ clips' = Closed
    /\ idx' = idx + 1
    /\ pc' = "next"
    /\ UNCHANGED <<args, output_exists, w_ratio, h_ratio, listed, listing,
                   clip, new_clip, outputs, attempted, failed>>

Next ==
    \/ CheckLibrary
    \/ CheckInput
    \/ MakeOutput
    \/ ParseRatio
    \/ ListDir
    \/ NextFile
    \/ Load
    \/ Crop
    \/ Letterbox
    \/ InvalidMethod
    \/ Write
    \/ Finally

Spec == Init /\ [][Next]_vars

\* the function runs to its end: no step of it waits for anything
FairSpec == Spec /\ WF_vars(Next)

(***************************************************************************)
(* The dimension arithmetic alone: a call that has just loaded its first   *)
(* file, for every source size and every ratio within the bounds.          *)
(***************************************************************************)
\* str(n) for n >= 1
RECURSIVE DecimalString(_)
DecimalString(n) ==
    IF n < 10 THEN <<Digits[n + 1]>>
    ELSE Append(DecimalString(n \div 10), Digits[(n % 10) + 1])

RatioString(wr, hr) == DecimalString(wr) \o <<":">> \o DecimalString(hr)

DimInit ==
    /\ pc = "transform"
    /\ MOVIEPY_INSTALLED = TRUE
    /\ folder_is_dir = TRUE
    /\ output_existed = TRUE
    /\ output_exists = TRUE
    /\ \E wr \in 1..MaxRatio, hr \in 1..MaxRatio :
          /\ target_aspect_ratio = RatioString(wr, hr)
          /\ w_ratio = ParseRatioString(target_aspect_ratio)[1]
          /\ h_ratio = ParseRatioString(target_aspect_ratio)[2]
    /\ conversion_method \in {"crop", "letterbox"}
    /\ listed = TRUE
    /\ listing = <<[name |-> <<"a", ".", "m", "p", "4">>, isfile |-> TRUE]>>
    /\ idx = 1
    /\ \E w \in 1..MaxDim, h \in 1..MaxDim :
          clips = <<[kind |-> "source", file |-> 1, size |-> <<w, h>>,
                     closes |-> 0, closed_in |-> {}]>>
    /\ clip = 1
    /\ new_clip = Unbound
    /\ outputs = {}
    /\ attempted = {1}
    /\ failed = {}

DimNext == Crop \/ Letterbox

DimSpec == DimInit /\ [][DimNext]_vars

(***************************************************************************)
(* Properties.                                                             *)
(***************************************************************************)
ClipsOfKind(kinds) == {i \in 1..Len(clips) : clips[i].kind \in kinds}

\* the size of the source clip of the file that clip object i was made for
Original(i) ==
    clips[CHOOSE j \in 1..Len(clips) :
              clips[j].kind = "source" /\ clips[j].file = clips[i].file].size

\* width/height > w_ratio/h_ratio, in exact rational arithmetic
Wider(i) == Original(i)[1] * h_ratio > w_ratio * Original(i)[2]

\* evenDown(floor(height * w_ratio / h_ratio))
ExactWidth(i) == EvenDown((Original(i)[2] * w_ratio) \div h_ratio)

\* evenDown(floor(width / (w_ratio / h_ratio)))
ExactHeight(i) == EvenDown((Original(i)[1] * h_ratio) \div w_ratio)

\* C1: the width and the height of every crop rectangle and of every
\* letterbox canvas are even numbers, the dimension kept from the source
\* included.
C1_AllDimensionsEven ==
    \A i \in ClipsOfKind({"crop", "background"}) :
        clips[i].size[1] % 2 = 0 /\ clips[i].size[2] % 2 = 0

\* C2: a letterbox canvas is at least as wide and at least as high as the
\* original frame.
C2_LetterboxNeverShrinks ==
    \A i \in ClipsOfKind({"background"}) :
        clips[i].size[1] >= Original(i)[1] /\ clips[i].size[2] >= Original(i)[2]

C4_EqualPadding ==
    \A i \in ClipsOfKind({"background"}) :
        LET padx == clips[i].size[1] - Original(i)[1]
            pady == clips[i].size[2] - Original(i)[2]
        IN  IF Wider(i)
            THEN padx = 0 /\ pady >= 0 /\ pady % 2 = 0
            ELSE pady = 0 /\ padx >= 0 /\ padx % 2 = 0

\* C5: the computed dimensions are those of the reference rule evaluated on
\* the exact rational w_ratio/h_ratio.
C5_ReferenceRule ==
    /\ \A i \in ClipsOfKind({"crop"}) :
          clips[i].size = IF Wider(i) THEN <<ExactWidth(i), Original(i)[2]>>
                          ELSE <<Original(i)[1], ExactHeight(i)>>
    /\ \A i \in ClipsOfKind({"background"}) :
          clips[i].size = IF Wider(i) THEN <<Original(i)[1], ExactHeight(i)>>
                          ELSE <<ExactWidth(i), Original(i)[2]>>

QualifyingFiles == {i \in 1..Len(listing) : Qualifies(listing[i])}

Written(i) == NewFilename(listing[i].name) \in outputs

\* C6: when the run has ended, every qualifying file of the listing was
\* attempted and every one that did not fail has its output file.
C6_EveryFileConverted ==
    (pc = "done" /\ listed) =>
        \A i \in QualifyingFiles : i \in attempted /\ (i \notin failed => Written(i))

\* C6, amended: the run ends, every qualifying file was attempted, and a file
\* that did not fail has its output file exactly when the conversion method
\* is crop or letterbox.
C6_BatchSurvivesFailures ==
    <>(/\ pc = "done"
       /\ listed =>
            \A i \in QualifyingFiles :
                /\ i \in attempted
                /\ i \notin failed =>
                     (Written(i) <=> conversion_method \in {"crop", "letterbox"}))

\* the run has ended, a file failed and a later file was written
C6_Witness ==
    /\ pc = "done"
    /\ \E i, j \in QualifyingFiles : i < j /\ i \in failed /\ j \notin failed /\ Written(j)

\* C7: when the clip of a file is about to be opened, and when the run has
\* ended, every clip object created so far has been closed.
C7_EarlierClipsReleased ==
    pc \in {"load", "done"} => \A i \in 1..Len(clips) : clips[i].closes >= 1

\* "two integers separated by ':'", both positive
WellFormedRatio(s) ==
    \E k \in 1..Len(s) :
        /\ s[k] = ":"
        /\ IsIntLiteral(SubSeq(s, 1, k - 1))
        /\ IsIntLiteral(SubSeq(s, k + 1, Len(s)))
        /\ IntOf(SubSeq(s, 1, k - 1)) > 0
        /\ IntOf(SubSeq(s, k + 1, Len(s))) > 0

\* C8: with a malformed ratio string the input directory is never listed, no
\* clip is opened and no output file is written.
C8_MalformedRatioRejectedFirst ==
    ~WellFormedRatio(target_aspect_ratio) =>
        ~listed /\ clips = << >> /\ attempted = {} /\ outputs = {} /\ pc # "list"

\* the ratio string was parsed and rejected
C8_Witness ==
    /\ pc = "done"
    /\ MOVIEPY_INSTALLED /\ folder_is_dir
    /\ ~WellFormedRatio(target_aspect_ratio)
    /\ Len(Split(target_aspect_ratio, ":")) = 2

\* the call returned before the directory scan
EarlyReturn == pc = "done" /\ ~listed

\* C9: every early return leaves the output directory as it was.
C9_AbortLeavesFilesystem == EarlyReturn => output_exists = output_existed

\* C9, amended: an early return writes no file and opens no clip; it leaves
\* the output directory as it was when the library or the input directory is
\* missing, and has created it when the ratio string is the cause.
C9_AbortCreatesOnlyOutputDir ==
    EarlyReturn =>
        /\ outputs = {} /\ clips = << >>
        /\ output_exists <=> (output_existed \/ (MOVIEPY_INSTALLED /\ folder_is_dir))

\* an early return that created the output directory
C9_Witness == EarlyReturn /\ output_exists /\ ~output_existed

\* C10: close is called at most once on a clip object, and only in the
\* iteration that created it.
C10_ClosedOnceByOwner ==
    \A i \in 1..Len(clips) :
        clips[i].closes <= 1 /\ clips[i].closed_in \subseteq {clips[i].file}

====
